---- MODULE Spec2Model ----
(***************************************************************************)
(* Model of eleffa/test_scraping: the two harvest drivers                  *)
(* (scrape_parcoursup_structured.py and scrape_liens_parcoursup_old.py),   *)
(* the bounded content collector and the e-mail extractor.                 *)
(***************************************************************************)
EXTENDS Integers, Sequences, FiniteSets, TLC

(***************************************************************************)
(* Bounds of the model.                                                    *)
(***************************************************************************)
\* Longest raw URL column read from the spreadsheet.
MaxInput == 2
\* Number of invocations of main() in one behaviour.
MaxRuns == 3

(***************************************************************************)
(* Generic helpers.                                                        *)
(***************************************************************************)
Range(s) == {s[i] : i \in 1..Len(s)}

\* Python's None, as it is stored in a row dict.
NoneVal == "<None>"

\* Python truthiness of a str-or-None value.
Truthy(v) == v \notin {"", NoneVal}

\* Python's  a or b or ""
OrElse(a, b) == IF Truthy(a) THEN a ELSE IF Truthy(b) THEN b ELSE ""

(***************************************************************************)
(* Input URLs.  A URL is named by a string; QueryOf gives its parsed query *)
(* string (urlparse + parse_qs) as a sequence of <<name, value>> pairs.    *)
(***************************************************************************)
URLS == {"u1", "u2"}

QueryOf(url) == IF url = "u1" THEN << <<"g_ta_cod", "4242">> >> ELSE << >>

\* df[col].astype(str).str.strip().dropna().drop_duplicates().tolist():
\* the first occurrence of each URL, in order.
RECURSIVE drop_duplicates(_)
drop_duplicates(s) ==
    IF s = << >> THEN << >>
    ELSE LET init == drop_duplicates(SubSeq(s, 1, Len(s) - 1))
             last == s[Len(s)]
         IN  IF last \in Range(init) THEN init ELSE Append(init, last)

RawInputs == UNION {[1..n -> URLS] : n \in 1..MaxInput}

(***************************************************************************)
(* scrape_parcoursup_structured.py                                         *)
(***************************************************************************)
OdColumns ==
    {"od_libelle_formation", "od_libelle_etablissement", "od_diplome",
     "od_secteur", "od_academie", "od_departement", "od_commune",
     "od_code_postal", "od_uai"}

IntParsedKeys ==
    {"places", "voeux_confirmes", "candidats_postules", "propositions",
     "integres"}

\* The keys of the dict parse_html_fields returns.
ParsedKeys ==
    {"frais_annee", "frais_boursiers", "lv1", "lv2", "niveau_francais",
     "places", "voeux_confirmes", "candidats_postules", "propositions",
     "integres", "onisep_url", "catalogue_url", "emails_contact",
     "criteres_analyse", "chiffres_acces", "poursuites_etudes", "debouches",
     "contacter_etablissement", "titre_bloc"}

fieldnames ==
    {"source_url", "g_ta_cod"} \cup OdColumns \cup
    {"titre_bloc", "places", "voeux_confirmes", "candidats_postules",
     "propositions", "integres", "frais_annee", "frais_boursiers", "lv1",
     "lv2", "niveau_francais", "onisep_url", "catalogue_url",
     "emails_contact", "criteres_analyse", "chiffres_acces",
     "poursuites_etudes", "debouches", "contacter_etablissement"} \cup
    {"http_status", "error"}

\* get_g_ta_cod: the first value of g_ta_cod, else of "g_ta_cod=", else None.
get_g_ta_cod(url) ==
    LET q == QueryOf(url)
        vals(name) == SelectSeq(q, LAMBDA p : p[1] = name)
    IN  IF vals("g_ta_cod") # << >> THEN vals("g_ta_cod")[1][2]
        ELSE IF vals("g_ta_cod=") # << >> THEN vals("g_ta_cod=")[1][2]
        ELSE NoneVal

\* Records of the open-data API; each value is the name of its key, so that
\* the column a value ends in can be told.
OdKeys ==
    {"libelle_formation", "libelle_long", "libelle_etablissement",
     "etablissement", "type_de_formation", "diplome", "secteur", "academie",
     "nom_academie", "departement", "nom_departement", "commune",
     "code_postal", "uai"}

OdFull == [k \in OdKeys |-> k]

OdAlt ==
    [k \in {"libelle_long", "etablissement", "diplome", "nom_academie",
            "nom_departement"} |-> k]

OdBlank == [k \in {"secteur", "commune"} |-> ""]

EmptyDict == [k \in {} |-> ""]

\* What the open-data request can answer.
OdResponses ==
    {[kind |-> "exc", status |-> 0, results |-> << >>],
     [kind |-> "http", status |-> 500, results |-> <<OdFull>>],
     [kind |-> "http", status |-> 200, results |-> << >>],
     [kind |-> "http", status |-> 200, results |-> <<OdFull>>],
     [kind |-> "http", status |-> 200, results |-> <<OdAlt>>],
     [kind |-> "http", status |-> 200, results |-> <<OdBlank>>]}

\* opendata_fetch: the first record, or {} on any failure.
opendata_fetch(resp) ==
    IF resp.kind = "http" /\ resp.status = 200 /\ resp.results # << >>
    THEN resp.results[1]
    ELSE EmptyDict

\* dict.get
Get(d, k) == IF k \in DOMAIN d THEN d[k] ELSE NoneVal

\* str(status_code) as csv writes it.
StatusStr(n) == IF n = 200 THEN "200" ELSE IF n = 500 THEN "500" ELSE "404"

\* What the page request can answer: an exception, or a response with its
\* status, whether Content-Type holds text/html, and its body.
Pages == {"blank", "full", "bad"}

\* No page request was made.
NoResp == [kind |-> "none", status |-> 0, html |-> FALSE, page |-> "blank"]

PageResponses ==
    {[kind |-> k, status |-> 0, html |-> FALSE, page |-> "blank"] :
        k \in {"timeout", "reqexc", "exc"}}
    \cup
    {[kind |-> "http", status |-> 200, html |-> TRUE, page |-> p] : p \in Pages}
    \cup
    {[kind |-> "http", status |-> 200, html |-> FALSE, page |-> "blank"],
     [kind |-> "http", status |-> 500, html |-> TRUE, page |-> "full"],
     [kind |-> "http", status |-> 500, html |-> FALSE, page |-> "blank"]}

\* parse_html_fields on the bodies of the model: a page with every field, and
\* a page with none (empty strings, None for the counts).
ParseRaises(page) == page = "bad"

parse_html_fields(page) ==
    [k \in ParsedKeys |->
        IF page = "full" THEN k
        ELSE IF k \in IntParsedKeys THEN NoneVal ELSE ""]

\* A mutant of CopyParsed: the parsed dict replaces the row instead of being
\* copied into it.
CopyParsedReplacing(row, parsed) ==
    [k \in DOMAIN row \cup DOMAIN parsed |->
        IF k \in DOMAIN parsed THEN parsed[k] ELSE ""]

\* for k, v in parsed.items(): row[k] = v
CopyParsed(row, parsed) ==
    [k \in DOMAIN row \cup DOMAIN parsed |->
        IF k \in DOMAIN parsed THEN parsed[k] ELSE row[k]]

\* The open-data columns of the row (lines 360-369).
CopyOpenData(row, od) ==
    IF od = EmptyDict THEN row
    ELSE [row EXCEPT
        !["od_libelle_formation"] =
            OrElse(Get(od, "libelle_formation"), Get(od, "libelle_long")),
        !["od_libelle_etablissement"] =
            OrElse(Get(od, "libelle_etablissement"), Get(od, "etablissement")),
        !["od_diplome"] = OrElse(Get(od, "type_de_formation"), Get(od, "diplome")),
        !["od_secteur"] = OrElse(Get(od, "secteur"), ""),
        !["od_academie"] = OrElse(Get(od, "academie"), Get(od, "nom_academie")),
        !["od_departement"] =
            OrElse(Get(od, "departement"), Get(od, "nom_departement")),
        !["od_commune"] = OrElse(Get(od, "commune"), ""),
        !["od_code_postal"] = OrElse(Get(od, "code_postal"), ""),
        !["od_uai"] = OrElse(Get(od, "uai"), "")]

\* The HTML part of one iteration (lines 372-385).
FetchPage(row, resp) ==
    CASE resp.kind = "timeout" -> [row EXCEPT !["error"] = "Timeout"]
      [] resp.kind = "reqexc" -> [row EXCEPT !["error"] = "HTTP error"]
      [] resp.kind = "http" ->
            LET r1 == [row EXCEPT !["http_status"] = StatusStr(resp.status)]
            IN  IF resp.status = 200 /\ resp.html
                THEN IF ParseRaises(resp.page)
                     THEN [r1 EXCEPT !["error"] = "Parse error"]
                     ELSE CopyParsed(r1, parse_html_fields(resp.page))
                ELSE r1

\* One iteration of the loop of main for a URL that is not skipped
\* (lines 351-394): the rows handed to writerow, the number of network
\* requests and of calls of time.sleep.
StructIteration(url, odResp, resp) ==
    LET row0 == [[k \in fieldnames |-> ""] EXCEPT !["source_url"] = url]
        gid == get_g_ta_cod(url)
        row1 == [row0 EXCEPT !["g_ta_cod"] = OrElse(gid, "")]
        od == IF Truthy(gid) THEN opendata_fetch(odResp) ELSE EmptyDict
        row2 == CopyOpenData(row1, od)
        row3 == IF resp.kind = "exc"
                THEN [row2 EXCEPT !["error"] = "Erreur"]
                ELSE FetchPage(row2, resp)
    IN  [writes |-> <<row3>>,
         requests |-> (IF Truthy(gid) THEN 1 ELSE 0) + 1,
         sleeps |-> 1,
         od |-> od,
         resp |-> resp,
         cache |-> EmptyDict]

(***************************************************************************)
(* Text.  A string is a sequence of one-character strings.                 *)
(***************************************************************************)
IsSpace(c) == c \in {" ", "\n", "\t"}

\* str.lower on the letters of the model.
Lower(c) ==
    CASE c = "A" -> "a" [] c = "B" -> "b" [] c = "E" -> "e" [] c = "F" -> "f"
      [] c = "G" -> "g" [] c = "O" -> "o" [] c = "R" -> "r" [] c = "X" -> "x"
      [] OTHER -> c

\* str.split(): the maximal runs of characters that are not whitespace.
RECURSIVE split(_)
split(s) ==
    IF s = << >> THEN << >>
    ELSE LET init == split(SubSeq(s, 1, Len(s) - 1))
             c == s[Len(s)]
         IN  IF IsSpace(c) THEN init
             ELSE IF Len(s) > 1 /\ ~IsSpace(s[Len(s) - 1])
                  THEN [init EXCEPT ![Len(init)] = Append(@, c)]
                  ELSE Append(init, <<c>>)

\* sep.join(parts)
RECURSIVE join(_, _)
join(sep, parts) ==
    IF parts = << >> THEN << >>
    ELSE IF Len(parts) = 1 THEN parts[1]
    ELSE join(sep, SubSeq(parts, 1, Len(parts) - 1)) \o sep \o parts[Len(parts)]

\* norm_spaces: " ".join(s.split())
norm_spaces(s) == join(<<" ">>, split(s))

\* str.strip()
RECURSIVE strip(_)
strip(s) ==
    IF s = << >> THEN s
    ELSE IF IsSpace(s[1]) THEN strip(Tail(s))
    ELSE IF IsSpace(s[Len(s)]) THEN strip(SubSeq(s, 1, Len(s) - 1))
    ELSE s

\* re.compile(p, re.I).search(txt) for a pattern of literal characters.
search(pat, txt) ==
    \E k \in 0..(Len(txt) - Len(pat)) :
        \A i \in 1..Len(pat) : Lower(txt[k + i]) = Lower(pat[i])

\* sum(len(x) for x in texts)
RECURSIVE SumLen(_)
SumLen(texts) ==
    IF texts = << >> THEN 0
    ELSE Len(texts[1]) + SumLen(Tail(texts))

(***************************************************************************)
(* Document trees.  A document is the sequence of its elements in document *)
(* order; an element has a tag, the text it holds itself, and its depth.   *)
(* The elements below element i are those that follow it with a greater    *)
(* depth, up to the first that has not.                                    *)
(***************************************************************************)
\* Most elements of a document.
MaxNodes == 3
\* Deepest nesting of an element.
MaxDepth == 2

HeadingTags == {"h1", "h2", "h3", "h4", "h5", "h6", "strong"}

\* The elements documents are built from.
NodeKinds ==
    {[tag |-> "h2", text |-> <<"F">>],
     [tag |-> "strong", text |-> <<"g">>],
     [tag |-> "h2", text |-> << >>],
     [tag |-> "p", text |-> <<"g">>],
     [tag |-> "p", text |-> <<"x", " ", " ", "x">>],
     [tag |-> "p", text |-> << >>],
     [tag |-> "div", text |-> << >>],
     [tag |-> "div", text |-> <<"F">>],
     [tag |-> "td", text |-> <<"g">>]}

\* Which element may hold which: blocks hold anything, a paragraph inline
\* elements.
MayHold(parent, child) ==
    \/ parent \in {"div", "td"}
    \/ parent = "p" /\ child = "strong"

\* The element that holds a new element of depth dep appended to d: the last
\* one of a smaller depth.
Parent(d, dep) ==
    LET above == {j \in 1..Len(d) : d[j].depth < dep}
    IN  CHOOSE j \in above : \A k \in above : k <= j

\* The documents of n elements: a document of n - 1 elements and one more
\* element, at most one level deeper than the last, in an element that may
\* hold it.
RECURSIVE DocsOfLen(_)
DocsOfLen(n) ==
    IF n = 1
    THEN {<<[tag |-> k.tag, text |-> k.text, depth |-> 0]>> : k \in NodeKinds}
    ELSE {Append(x[1], [tag |-> x[2].tag, text |-> x[2].text, depth |-> x[3]]) :
            x \in {y \in DocsOfLen(n - 1) \X NodeKinds \X (0..MaxDepth) :
                    /\ y[3] <= y[1][n - 1].depth + 1
                    /\ y[3] > 0 => MayHold(y[1][Parent(y[1], y[3])].tag, y[2].tag)}}

\* The documents of at most n elements.
Docs(n) == UNION {DocsOfLen(k) : k \in 1..n}

\* Index of the last element of the subtree of element i.
SubtreeEnd(d, i) ==
    LET stop == {j \in (i + 1)..Len(d) : d[j].depth <= d[i].depth}
    IN  IF stop = {} THEN Len(d)
        ELSE (CHOOSE j \in stop : \A k \in stop : j <= k) - 1

\* Tag.get_text(sep, strip=True): the stripped, non-empty strings of the
\* subtree, joined by sep.
get_text(d, i, sep) ==
    LET strings == [k \in 1..(SubtreeEnd(d, i) - i + 1) |-> strip(d[i + k - 1].text)]
    IN  join(sep, SelectSeq(strings, LAMBDA x : x # << >>))

\* Tag.__eq__: same name and equal children, element by element.
TagEq(d, i, j) ==
    LET n == SubtreeEnd(d, i) - i
    IN  /\ SubtreeEnd(d, j) - j = n
        /\ \A k \in 0..n :
            /\ d[i + k].tag = d[j + k].tag
            /\ d[i + k].text = d[j + k].text
            /\ d[i + k].depth - d[i].depth = d[j + k].depth - d[j].depth

is_heading(d, i) == d[i].tag \in HeadingTags

\* The loop over tag.find_all_next() of extract_text_after_heading (88-98),
\* from element j, with the texts kept so far.
RECURSIVE ExtractLoop(_, _, _, _, _)
ExtractLoop(d, t, j, texts, max_chars) ==
    IF j > Len(d) THEN texts
    ELSE IF TagEq(d, j, t) THEN ExtractLoop(d, t, j + 1, texts, max_chars)
    ELSE IF is_heading(d, j) THEN texts
    ELSE LET txt == norm_spaces(get_text(d, j, <<" ">>))
             texts2 == IF d[j].tag \in {"p", "li", "div", "span", "dd"} /\ txt # << >>
                       THEN Append(texts, txt) ELSE texts
         IN  IF SumLen(texts2) > max_chars THEN texts2
             ELSE ExtractLoop(d, t, j + 1, texts2, max_chars)

\* A mutant of CollectLoop: the budget is compared with the number of chunks,
\* not with their total length.
RECURSIVE CollectLoopCounting(_, _, _, _, _)
CollectLoopCounting(d, t, j, chunks, max_chars) ==
    IF j > Len(d) THEN chunks
    ELSE IF TagEq(d, j, t) THEN CollectLoopCounting(d, t, j + 1, chunks, max_chars)
    ELSE IF is_heading(d, j) THEN chunks
    ELSE LET ttxt == get_text(d, j, <<" ">>)
             chunks2 ==
                IF d[j].tag \in {"p", "li", "div", "span", "dd", "td", "th"}
                    /\ ttxt # << >>
                THEN Append(chunks, ttxt) ELSE chunks
         IN  IF Len(chunks2) > max_chars THEN chunks2
             ELSE CollectLoopCounting(d, t, j + 1, chunks2, max_chars)

\* The loop over tag.find_all_next() of collect_section_text (115-125).
RECURSIVE CollectLoop(_, _, _, _, _)
CollectLoop(d, t, j, chunks, max_chars) ==
    IF j > Len(d) THEN chunks
    ELSE IF TagEq(d, j, t) THEN CollectLoop(d, t, j + 1, chunks, max_chars)
    ELSE IF is_heading(d, j) THEN chunks
    ELSE LET ttxt == get_text(d, j, <<" ">>)
             chunks2 ==
                IF d[j].tag \in {"p", "li", "div", "span", "dd", "td", "th"}
                    /\ ttxt # << >>
                THEN Append(chunks, ttxt) ELSE chunks
         IN  IF SumLen(chunks2) > max_chars THEN chunks2
             ELSE CollectLoop(d, t, j + 1, chunks2, max_chars)

\* soup.find_all(lambda t: heading and t.get_text(strip=True) ...): the
\* headings with text, in document order.
HeadingsWithText(d) ==
    SelectSeq([i \in 1..Len(d) |-> i],
              LAMBDA i : is_heading(d, i) /\ get_text(d, i, << >>) # << >>)

\* A mutant of LocateSection: the alternatives are tried one after the other,
\* each over the whole document.
RECURSIVE LocateByPattern(_, _, _)
LocateByPattern(d, cands, pats) ==
    IF pats = << >> THEN 0
    ELSE LET hit == SelectSeq(cands, LAMBDA i : search(pats[1], get_text(d, i, <<" ">>)))
         IN  IF hit # << >> THEN hit[1] ELSE LocateByPattern(d, cands, Tail(pats))

\* Lines 110-112: the first candidate whose text any pattern matches
\* (0: none).
RECURSIVE LocateSection(_, _, _)
LocateSection(d, cands, pats) ==
    IF cands = << >> THEN 0
    ELSE IF \E k \in 1..Len(pats) : search(pats[k], get_text(d, cands[1], <<" ">>))
    THEN cands[1]
    ELSE LocateSection(d, Tail(cands), pats)

\* extract_text_after_heading: the element found, the texts kept and the
\* string returned.
extract_text_after_heading(d, heading_regex, max_chars) ==
    LET t == LocateSection(d, HeadingsWithText(d), <<heading_regex>>)
        texts == IF t = 0 THEN << >> ELSE ExtractLoop(d, t, t + 1, << >>, max_chars)
    IN  [tag |-> t, units |-> texts, text |-> norm_spaces(join(<<" ">>, texts))]

\* collect_section_text
collect_section_text(d, heading_patterns, max_chars) ==
    LET t == LocateSection(d, HeadingsWithText(d), heading_patterns)
        chunks == IF t = 0 THEN << >> ELSE CollectLoop(d, t, t + 1, << >>, max_chars)
    IN  [tag |-> t, units |-> chunks, text |-> norm_spaces(join(<<" ">>, chunks))]

\* The heading patterns and budgets the functions are called with.
Patterns == {<<"f">>, <<"G">>}

PatternLists == {<<p>> : p \in Patterns} \cup {<<p, q>> : p, q \in Patterns}

Budgets == {1, 3}

(***************************************************************************)
(* E-mail addresses (EMAIL_RE, line 48; parse_html_fields, lines 189-190). *)
(***************************************************************************)
\* Most addresses of a page text.
MaxTokens == 3

IsLetter(c) ==
    c \in {"a", "b", "e", "f", "g", "o", "r", "x",
           "A", "B", "E", "F", "G", "O", "R", "X"}

IsDigit(c) == c \in {"0", "1", "2", "3", "4", "5", "6", "7", "8", "9"}

\* The character classes of EMAIL_RE under re.I.
LocalChar(c) == IsLetter(c) \/ IsDigit(c) \/ c \in {".", "_", "%", "+", "-"}

DomainChar(c) == IsLetter(c) \/ IsDigit(c) \/ c \in {".", "-"}

\* The ends e of the matches of EMAIL_RE that start at s:
\* [A-Z0-9._%+-]+ @ [A-Z0-9.-]+ \. [A-Z]{2,}
MatchEnds(txt, s) ==
    {e \in s..Len(txt) :
        \E at \in (s + 1)..e, dot \in (s + 3)..e :
            /\ at + 1 < dot
            /\ txt[at] = "@"
            /\ txt[dot] = "."
            /\ \A i \in s..(at - 1) : LocalChar(txt[i])
            /\ \A i \in (at + 1)..(dot - 1) : DomainChar(txt[i])
            /\ e >= dot + 2
            /\ \A i \in (dot + 1)..e : IsLetter(txt[i])}

\* re.findall(EMAIL_RE, text) from position s: leftmost matches, each as long
\* as the greedy quantifiers make it, without overlap.
RECURSIVE findall(_, _)
findall(txt, s) ==
    IF s > Len(txt) THEN << >>
    ELSE LET ends == MatchEnds(txt, s)
         IN  IF ends = {} THEN findall(txt, s + 1)
             ELSE LET e == CHOOSE x \in ends : \A y \in ends : y <= x
                  IN  <<SubSeq(txt, s, e)>> \o findall(txt, e + 1)

\* ord(c) of the characters of the model.
Code(c) ==
    CASE c = "." -> 46 [] c = "@" -> 64
      [] c = "A" -> 65 [] c = "B" -> 66 [] c = "E" -> 69 [] c = "F" -> 70
      [] c = "G" -> 71 [] c = "O" -> 79 [] c = "R" -> 82 [] c = "X" -> 88
      [] c = "a" -> 97 [] c = "b" -> 98 [] c = "e" -> 101 [] c = "f" -> 102
      [] c = "g" -> 103 [] c = "o" -> 111 [] c = "r" -> 114 [] c = "x" -> 120
      [] OTHER -> 32

\* Python's str <
RECURSIVE StrLess(_, _)
StrLess(a, b) ==
    IF b = << >> THEN FALSE
    ELSE IF a = << >> THEN TRUE
    ELSE IF Code(a[1]) # Code(b[1]) THEN Code(a[1]) < Code(b[1])
    ELSE StrLess(Tail(a), Tail(b))

\* sorted(S) of a set of strings
RECURSIVE sorted(_)
sorted(S) ==
    IF S = {} THEN << >>
    ELSE LET m == CHOOSE x \in S : \A y \in S \ {x} : StrLess(x, y)
         IN  <<m>> \o sorted(S \ {m})

\* emails = sorted(set(re.findall(EMAIL_RE, text)))
extract_emails(txt) == sorted(Range(findall(txt, 1)))

\* The words page texts are built from.
EmailTokens ==
    {<<"a", "@", "e", "x", ".", "f", "r">>,
     <<"A", "@", "E", "X", ".", "F", "R">>,
     <<"b", "@", "e", "x", ".", "o", "r", "g">>,
     <<"a", "@", "e", "x">>,
     <<"B", "@", "e", "x", ".", "o", "r", "g", ".">>}

PageTexts ==
    {join(<<",", " ">>, toks) : toks \in UNION {[1..n -> EmailTokens] : n \in 1..MaxTokens}}

(***************************************************************************)
(* parse_int.  A string is a sequence of characters; "NBSP" is U+00A0 and  *)
(* "ar3" is U+0663, a decimal digit outside ASCII.                         *)
(***************************************************************************)
\* Number of pieces a count read from the page is made of.
MaxParts == 3

\* The longest digit string int() converts (sys.int_info's
\* default_max_str_digits, since Python 3.11); a longer one raises ValueError.
INT_MAX_STR_DIGITS == 4300

\* \d of a str pattern: every Unicode decimal digit.
UnicodeDigit(c) == IsDigit(c) \/ c = "ar3"

\* The value int() gives a decimal digit.
DigitValue(c) ==
    CASE c = "0" -> 0 [] c = "1" -> 1 [] c = "2" -> 2 [] c = "3" -> 3
      [] c = "4" -> 4 [] c = "5" -> 5 [] c = "6" -> 6 [] c = "7" -> 7
      [] c = "8" -> 8 [] c = "9" -> 9 [] c = "ar3" -> 3

\* s.replace(old, new) for a one-character old.
replace(s, old, new) ==
    LET piece(c) == IF c = old THEN new ELSE <<c>>
    IN  join(<< >>, [i \in 1..Len(s) |-> piece(s[i])])

\* re.search(r"\d", s) finds a match.
search_digit(s) == \E i \in 1..Len(s) : UnicodeDigit(s[i])

\* A mutant of sub_nondigits: the first run of digits, as re.search(r"\d+")
\* would give it.
first_digit_run(s) ==
    LET from == CHOOSE i \in 1..(Len(s) + 1) :
                    /\ i <= Len(s) => UnicodeDigit(s[i])
                    /\ \A j \in 1..(i - 1) : ~UnicodeDigit(s[j])
        upto == CHOOSE e \in (from - 1)..Len(s) :
                    /\ \A j \in from..e : UnicodeDigit(s[j])
                    /\ e < Len(s) => ~UnicodeDigit(s[e + 1])
    IN  SubSeq(s, from, upto)

\* re.sub(r"\D+", "", s): every run of non-digits is removed.
sub_nondigits(s) == SelectSeq(s, UnicodeDigit)

\* What parse_int leaves with: an exception, None, or an int.
Raised == [raised |-> TRUE, none |-> FALSE, value |-> 0]

ReturnNone == [raised |-> FALSE, none |-> TRUE, value |-> 0]

Return(n) == [raised |-> FALSE, none |-> FALSE, value |-> n]

\* int(s) of a str: ValueError on a string that is not a decimal literal or
\* that is longer than the limit, else the value, most significant digit first.
RECURSIVE int(_)
int(s) ==
    IF s = << >> \/ (\E i \in 1..Len(s) : ~UnicodeDigit(s[i]))
            \/ Len(s) > INT_MAX_STR_DIGITS
    THEN Raised
    ELSE IF Len(s) = 1 THEN Return(DigitValue(s[1]))
    ELSE Return(10 * int(SubSeq(s, 1, Len(s) - 1)).value
                    + DigitValue(s[Len(s)]))

\* None where a str is expected: no sequence of characters.
NoneStr == <<NoneVal>>

\* parse_int (lines 53-56).
parse_int(s) ==
    LET s1 == IF s = NoneStr THEN << >> ELSE s
        s2 == replace(replace(s1, "NBSP", <<" ">>), " ", << >>)
    IN  IF search_digit(s2) THEN int(sub_nondigits(s2)) ELSE ReturnNone

\* The pieces the argument of parse_int is built from, and the arguments.
NumberTokens ==
    {<<"1">>, <<"1", " ">>, <<"1", "NBSP">>, <<"2", "3">>, <<"4">>, <<"0">>,
     <<"ar3">>, <<" ">>, <<"NBSP">>, <<"x">>, <<"-">>}

NumberTexts ==
    {NoneStr} \cup
    {join(<< >>, toks) :
        toks \in UNION {[1..n -> NumberTokens] : n \in 0..MaxParts}}

(***************************************************************************)
(* scrape_liens_parcoursup_old.py                                          *)
(***************************************************************************)
old_fieldnames ==
    {"source_url", "final_url", "status_code", "title", "meta_description",
     "h1", "lang", "canonical", "pub_date", "text_length", "error"}

\* The columns the old driver fills from the parsed page (lines 199-226).
OldPageKeys ==
    {"title", "meta_description", "h1", "lang", "canonical", "pub_date",
     "text_length"}

\* scheme://netloc of a URL: every link of the spreadsheet is on one site.
Origin(url) == "parcoursup"

\* What the robots.txt request can answer: an exception, or a status and the
\* rule the file holds for the driver's user agent.
RobotsResponses ==
    {[kind |-> k, status |-> 0, rule |-> "allow"] : k \in {"reqexc", "exc"}}
    \cup
    {[kind |-> "http", status |-> 200, rule |-> "allow"],
     [kind |-> "http", status |-> 200, rule |-> "deny"],
     [kind |-> "http", status |-> 200, rule |-> "deny_u1"],
     [kind |-> "http", status |-> 404, rule |-> "deny"]}

\* rp.can_fetch(UA, url): "allow" is a file without a Disallow line (or the
\* empty file), "deny" disallows every path and "deny_u1" the path of u1.
can_fetch(rp, url) == rp = "allow" \/ (rp = "deny_u1" /\ url # "u1")

\* is_allowed_by_robots: the cached parser of the origin, else one request;
\* a status >= 400 or a RequestException parses the empty file; any other
\* exception leaves the function.
is_allowed_by_robots(url, rresp, cache) ==
    LET o == Origin(url) IN
    IF o \in DOMAIN cache
    THEN [raised |-> FALSE, allowed |-> can_fetch(cache[o], url),
          cache |-> cache, requests |-> 0]
    ELSE IF rresp.kind = "exc"
    THEN [raised |-> TRUE, allowed |-> FALSE, cache |-> cache, requests |-> 1]
    ELSE LET rp == IF rresp.kind = "reqexc" \/ rresp.status >= 400
                   THEN "allow" ELSE rresp.rule
         IN  [raised |-> FALSE, allowed |-> can_fetch(rp, url),
              cache |-> [x \in DOMAIN cache \cup {o} |->
                            IF x = o THEN rp ELSE cache[x]],
              requests |-> 1]

\* The fields read from the soup of a page (lines 199-226).
OldParse(row, page) ==
    [k \in DOMAIN row |->
        IF k \in OldPageKeys
        THEN (IF page = "full" THEN k
              ELSE IF k = "text_length" THEN "0" ELSE "")
        ELSE row[k]]

\* Lines 189-238: the page request and what follows it.
OldFetch(row, resp) ==
    CASE resp.kind = "timeout" -> [row EXCEPT !["error"] = "Timeout"]
      [] resp.kind = "reqexc" -> [row EXCEPT !["error"] = "Requete echouee"]
      [] resp.kind = "exc" -> [row EXCEPT !["error"] = "Erreur"]
      [] resp.kind = "http" ->
            LET r1 == [row EXCEPT !["status_code"] = StatusStr(resp.status),
                                  !["final_url"] = row["source_url"]]
            IN  IF resp.status >= 400
                THEN [r1 EXCEPT !["error"] = "HTTP"]
                ELSE IF ~resp.html
                THEN [r1 EXCEPT !["error"] = "Type non-HTML"]
                ELSE IF ParseRaises(resp.page)
                THEN [r1 EXCEPT !["error"] = "Erreur"]
                ELSE OldParse(r1, resp.page)

\* A mutant of RobotsBlocked: the row is written and the branch falls through
\* to the write at the end of the try block.
RobotsBlockedNoContinue(row0, rb) ==
    LET row == [row0 EXCEPT !["error"] = "Bloque par robots.txt"]
    IN  [writes |-> <<row, row>>, requests |-> rb.requests, sleeps |-> 1,
         od |-> EmptyDict, resp |-> NoResp, cache |-> rb.cache]

\* Lines 184-187: the URL is refused by robots.txt; the row is written and
\* continue leaves the iteration before time.sleep.
RobotsBlocked(row0, rb) ==
    [writes |-> <<[row0 EXCEPT !["error"] = "Bloque par robots.txt"]>>,
     requests |-> rb.requests, sleeps |-> 0, od |-> EmptyDict,
     resp |-> NoResp, cache |-> rb.cache]

\* One iteration of the loop of the old main for a URL that is not skipped
\* (lines 169-244).
OldIteration(url, rresp, resp, cache, no_robots) ==
    LET row0 == [[k \in old_fieldnames |-> ""] EXCEPT !["source_url"] = url]
        rb == IF no_robots
              THEN [raised |-> FALSE, allowed |-> TRUE, cache |-> cache,
                    requests |-> 0]
              ELSE is_allowed_by_robots(url, rresp, cache)
    IN  IF rb.raised
        THEN [writes |-> <<[row0 EXCEPT !["error"] = "Erreur"]>>,
              requests |-> rb.requests, sleeps |-> 1, od |-> EmptyDict,
              resp |-> NoResp, cache |-> rb.cache]
        ELSE IF ~rb.allowed
        THEN RobotsBlocked(row0, rb)
        ELSE [writes |-> <<OldFetch(row0, resp)>>,
              requests |-> rb.requests + 1, sleeps |-> 1, od |-> EmptyDict,
              resp |-> resp, cache |-> rb.cache]

(***************************************************************************)
(* The output file.  A line is named by its first cell: "source_url" for   *)
(* the header row, the URL for a data row; this is the only column a run   *)
(* reads back.  disk holds the lines the operating system has; buf those   *)
(* written to the file object and not yet flushed.                         *)
(***************************************************************************)
HeaderLine == "source_url"

\* pd.read_csv(out_path)["source_url"]: the first line names the columns.
\* raised: an empty file (EmptyDataError) or a first line without the column.
read_csv(lines) ==
    IF lines = << >> \/ lines[1] # HeaderLine
    THEN [raised |-> TRUE, column |-> {}]
    ELSE [raised |-> FALSE, column |-> Range(Tail(lines))]

\* mode = "a" if args.resume and out_path.exists() else "w"
OpenMode(resume_, exists_) == IF resume_ /\ exists_ THEN "a" ELSE "w"

\* The set of URLs a run skips (structured 331-337, old 143-151).
LoadDone(resume_, exists_, lines) ==
    IF resume_ /\ exists_
    THEN LET ex == read_csv(lines) IN IF ex.raised THEN {} ELSE ex.column
    ELSE {}

DataRows(lines) == SelectSeq(lines, LAMBDA l : l # HeaderLine)

VARIABLES
    driver,        \* which script is run
    infile,        \* the URL column of the spreadsheet
    urls,          \* the deduplicated list of the current run
    pc,            \* "idle" | "running"
    resume,        \* --resume of the current run
    no_robots,     \* --no-robots of the current run (old driver)
    mode,          \* the mode the output file is opened in
    done,          \* ProcessedSet
    pos,           \* index of the next URL of the loop
    exists,        \* out_path.exists()
    disk,          \* the lines of the output file
    buf,           \* lines written and not flushed
    robots_cache,  \* origin -> parsed robots.txt
    last,          \* the last iteration of the loop
    runs,          \* invocations of main so far
    resumeRuns,    \* consecutive invocations with --resume
    lastExit,      \* how the last invocation ended
    lost,          \* data rows a kill dropped from the buffer
    gap,           \* whether a URL was processed in this run, and the delays
                   \* applied since the last one was
    doc,           \* the document tree a collector is called on
    call,          \* the call of a collector: function, patterns, budget
    ret,           \* what the collector found and returned
    page_text,     \* the page text the e-mail extractor is called on
    emails,        \* the list the e-mail extractor returned
    number_text,   \* the argument parse_int is called with
    number         \* what parse_int returned, or that it raised

driverVars ==
    <<driver, infile, urls, pc, resume, no_robots, mode, done, pos, exists,
      disk, buf, robots_cache, last, runs, resumeRuns, lastExit, lost, gap>>

pureVars == <<doc, call, ret, page_text, emails, number_text, number>>

vars == <<driverVars, pureVars>>

NoCall == [fn |-> "none", pats |-> << >>, max_chars |-> 0]

NoRet == [tag |-> 0, units |-> << >>, text |-> << >>]

NoNumber == ReturnNone

PureIdle ==
    /\ doc = << >>
    /\ call = NoCall
    /\ ret = NoRet
    /\ page_text = << >>
    /\ emails = << >>
    /\ number_text = NoneStr
    /\ number = NoNumber

NoGap == [open |-> FALSE, sleeps |-> 0]

NoIteration ==
    [kind |-> "none", url |-> "", od |-> EmptyDict, resp |-> NoResp,
     writes |-> << >>, requests |-> 0, sleeps |-> 0]

DriverIdle(d, input) ==
    /\ driver = d
    /\ infile = input
    /\ urls = << >>
    /\ pc = "idle"
    /\ resume = FALSE
    /\ no_robots = FALSE
    /\ mode = "w"
    /\ done = {}
    /\ pos = 1
    /\ exists = FALSE
    /\ disk = << >>
    /\ buf = << >>
    /\ robots_cache = EmptyDict
    /\ last = NoIteration
    /\ runs = 0
    /\ resumeRuns = 0
    /\ lastExit = "none"
    /\ lost = 0
    /\ gap = NoGap

Init ==
    /\ \E d \in {"structured", "old"}, input \in RawInputs : DriverIdle(d, input)
    /\ PureIdle

\* main up to the loop: read the input, load ProcessedSet, open the file
\* (mode "w" truncates it) and write the header to the file object.
StartRun ==
    /\ pc = "idle"
    /\ runs < MaxRuns
    /\ \E r \in BOOLEAN, nr \in BOOLEAN :
        /\ (driver = "structured" => ~nr)
        /\ resume' = r
        /\ no_robots' = nr
        /\ mode' = OpenMode(r, exists)
        /\ done' = LoadDone(r, exists, disk)
        /\ disk' = IF OpenMode(r, exists) = "w" THEN << >> ELSE disk
        /\ buf' = IF OpenMode(r, exists) = "w" THEN <<HeaderLine>> ELSE << >>
        /\ resumeRuns' = IF r THEN resumeRuns + 1 ELSE 0
    /\ urls' = drop_duplicates(infile)
    /\ exists' = TRUE
    /\ robots_cache' = EmptyDict
    /\ pos' = 1
    /\ pc' = "running"
    /\ runs' = runs + 1
    /\ last' = NoIteration
    /\ lost' = 0
    /\ gap' = NoGap
    /\ UNCHANGED <<driver, infile, lastExit>>
    /\ UNCHANGED pureVars

\* A mutant of Skip: the test is an if/else around the body of the loop, and
\* the delay at the end of the iteration is still applied.
SkipSleeping ==
    /\ pc = "running"
    /\ pos <= Len(urls)
    /\ urls[pos] \in done
    /\ pos' = pos + 1
    /\ last' = [NoIteration EXCEPT !.kind = "skipped", !.url = urls[pos],
                                   !.sleeps = 1]
    /\ gap' = [gap EXCEPT !.sleeps = IF gap.open THEN 1 ELSE 0]
    /\ UNCHANGED <<driver, infile, urls, pc, resume, no_robots, mode, done,
                   exists, disk, buf, robots_cache, runs, resumeRuns,
                   lastExit, lost>>
    /\ UNCHANGED pureVars

\* if url in done: continue
Skip ==
    /\ pc = "running"
    /\ pos <= Len(urls)
    /\ urls[pos] \in done
    /\ pos' = pos + 1
    /\ last' = [NoIteration EXCEPT !.kind = "skipped", !.url = urls[pos]]
    /\ UNCHANGED <<driver, infile, urls, pc, resume, no_robots, mode, done,
                   exists, disk, buf, robots_cache, runs, resumeRuns,
                   lastExit, lost, gap>>
    /\ UNCHANGED pureVars

\* The rows of an iteration go to the file object; the runtime hands its
\* buffer to the operating system when it is full (full), not per row.
Emit(it, url, full) ==
    /\ last' = [kind |-> "processed", url |-> url, od |-> it.od,
                resp |-> it.resp, writes |-> it.writes,
                requests |-> it.requests, sleeps |-> it.sleeps]
    /\ LET out == buf \o [i \in 1..Len(it.writes) |-> it.writes[i]["source_url"]]
       IN  IF full
           THEN disk' = disk \o out /\ buf' = << >>
           ELSE disk' = disk /\ buf' = out
    /\ pos' = pos + 1
    /\ gap' = [open |-> TRUE, sleeps |-> it.sleeps]

ProcessStructured ==
    /\ pc = "running"
    /\ driver = "structured"
    /\ pos <= Len(urls)
    /\ urls[pos] \notin done
    /\ \E odResp \in OdResponses, resp \in PageResponses, full \in BOOLEAN :
        Emit(StructIteration(urls[pos], odResp, resp), urls[pos], full)
    /\ UNCHANGED <<driver, infile, urls, pc, resume, no_robots, mode, done,
                   exists, robots_cache, runs, resumeRuns, lastExit, lost>>
    /\ UNCHANGED pureVars

ProcessOld ==
    /\ pc = "running"
    /\ driver = "old"
    /\ pos <= Len(urls)
    /\ urls[pos] \notin done
    /\ \E rresp \in RobotsResponses, resp \in PageResponses, full \in BOOLEAN :
        LET it == OldIteration(urls[pos], rresp, resp, robots_cache, no_robots)
        IN  /\ Emit(it, urls[pos], full)
            /\ robots_cache' = it.cache
    /\ UNCHANGED <<driver, infile, urls, pc, resume, no_robots, mode, done,
                   exists, runs, resumeRuns, lastExit, lost>>
    /\ UNCHANGED pureVars

\* The loop ends and the with block closes the file: the buffer is flushed.
Finish ==
    /\ pc = "running"
    /\ pos > Len(urls)
    /\ disk' = disk \o buf
    /\ buf' = << >>
    /\ pc' = "idle"
    /\ lastExit' = "done"
    /\ UNCHANGED <<driver, infile, urls, resume, no_robots, mode, done, pos,
                   exists, robots_cache, last, runs, resumeRuns, lost, gap>>
    /\ UNCHANGED pureVars

\* The process is terminated (SIGKILL, SIGTERM, power loss): what the file
\* object still buffers never reaches the file.
Kill ==
    /\ pc = "running"
    /\ lost' = Len(DataRows(buf))
    /\ buf' = << >>
    /\ pc' = "idle"
    /\ lastExit' = "killed"
    /\ UNCHANGED <<driver, infile, urls, resume, no_robots, mode, done, pos,
                   exists, disk, robots_cache, last, runs, resumeRuns, gap>>
    /\ UNCHANGED pureVars

Next ==
    \/ StartRun
    \/ Skip
    \/ ProcessStructured
    \/ ProcessOld
    \/ Finish
    \/ Kill

Spec == Init /\ [][Next]_vars

(***************************************************************************)
(* The collectors as pure functions: a document is drawn, and one of the   *)
(* two functions is called on it.                                          *)
(***************************************************************************)
InitCollect ==
    /\ DriverIdle("structured", <<"u1">>)
    /\ doc \in Docs(MaxNodes)
    /\ call = NoCall
    /\ ret = NoRet
    /\ page_text = << >>
    /\ emails = << >>
    /\ number_text = NoneStr
    /\ number = NoNumber

CallExtract ==
    /\ call = NoCall
    /\ \E p \in Patterns, m \in Budgets :
        /\ call' = [fn |-> "extract", pats |-> <<p>>, max_chars |-> m]
        /\ ret' = extract_text_after_heading(doc, p, m)
    /\ UNCHANGED <<driverVars, doc, page_text, emails, number_text, number>>

CallCollect ==
    /\ call = NoCall
    /\ \E ps \in PatternLists, m \in Budgets :
        /\ call' = [fn |-> "collect", pats |-> ps, max_chars |-> m]
        /\ ret' = collect_section_text(doc, ps, m)
    /\ UNCHANGED <<driverVars, doc, page_text, emails, number_text, number>>

NextCollect ==
    \/ CallExtract
    \/ CallCollect

SpecCollect == InitCollect /\ [][NextCollect]_vars

(***************************************************************************)
(* The e-mail extractor as a pure function of the page text.               *)
(***************************************************************************)
InitEmail ==
    /\ DriverIdle("structured", <<"u1">>)
    /\ doc = << >>
    /\ call = NoCall
    /\ ret = NoRet
    /\ page_text \in PageTexts
    /\ emails = << >>
    /\ number_text = NoneStr
    /\ number = NoNumber

CallEmails ==
    /\ call = NoCall
    /\ call' = [NoCall EXCEPT !.fn = "emails"]
    /\ emails' = extract_emails(page_text)
    /\ UNCHANGED <<driverVars, doc, ret, page_text, number_text, number>>

NextEmail == CallEmails

SpecEmail == InitEmail /\ [][NextEmail]_vars

(***************************************************************************)
(* parse_int as a pure function of its argument.                           *)
(***************************************************************************)
InitInt ==
    /\ DriverIdle("structured", <<"u1">>)
    /\ doc = << >>
    /\ call = NoCall
    /\ ret = NoRet
    /\ page_text = << >>
    /\ emails = << >>
    /\ number_text \in NumberTexts
    /\ number = NoNumber

CallParseInt ==
    /\ call = NoCall
    /\ call' = [NoCall EXCEPT !.fn = "parse_int"]
    /\ number' = parse_int(number_text)
    /\ UNCHANGED <<driverVars, doc, ret, page_text, emails, number_text>>

NextInt == CallParseInt

SpecInt == InitInt /\ [][NextInt]_vars

(***************************************************************************)
(* Properties of the harvest drivers.                                      *)
(***************************************************************************)
Row == last.writes[1]

\* C1: every iteration of the loop for a URL that is not in ProcessedSet
\* appends exactly one line, that URL's, to the output stream (the file and
\* its buffer), whatever the outcome, and leaves the run going with the next
\* URL.
C1_ExactlyOneRow ==
    [][(pc = "running" /\ pos <= Len(urls) /\ urls[pos] \notin done
            /\ pos' # pos)
        => /\ pc' = "running"
           /\ pos' = pos + 1
           /\ disk' \o buf' = Append(disk \o buf, urls[pos])
           /\ Len(last'.writes) = 1]_vars

\* A second URL has been processed after a URL refused by robots.txt.
C1_Witness ==
    /\ driver = "old"
    /\ pos = 3
    /\ last.kind = "processed"
    /\ last.resp.kind = "timeout"
    /\ Len(DataRows(disk \o buf)) = 2
    /\ 1 \in DOMAIN last.writes
    /\ Row["error"] = "Timeout"

\* The columns a driver fills from the page or from the open-data record.
ContentColumns ==
    IF driver = "structured" THEN OdColumns \cup ParsedKeys ELSE OldPageKeys

\* A page request that timed out, answered 500, or answered 200 with a body
\* that is not HTML.
FailedFetch(resp) ==
    \/ resp.kind = "timeout"
    \/ resp.kind = "http" /\ resp.status = 500
    \/ resp.kind = "http" /\ resp.status = 200 /\ ~resp.html

\* C2: a URL whose page times out, answers HTTP 500 or answers a non-HTML
\* body yields one row whose error field is filled and whose extracted and
\* authoritative fields are all empty.
C2_NoAbort ==
    (last.kind = "processed" /\ FailedFetch(last.resp))
    => /\ Len(last.writes) = 1
       /\ Truthy(Row["error"])
       /\ \A k \in ContentColumns : ~Truthy(Row[k])

\* C3: when a run with --resume that follows a run with --resume ends, the
\* file holds one data row per distinct input URL and no URL twice.
C3_ResumeIdempotent ==
    (pc = "idle" /\ lastExit = "done" /\ resumeRuns >= 2)
    => LET rows == DataRows(disk)
       IN  /\ Len(rows) = Cardinality(Range(infile))
           /\ \A i, j \in 1..Len(rows) : rows[i] = rows[j] => i = j

\* C4: when the process is terminated, at most one row of this run (the one
\* in flight) is missing from the file.
C4_Durable == lastExit = "killed" => lost <= 1

\* C8: in the row of the structured driver, source_url and g_ta_cod are the
\* URL's, every od_* column holds the value of the open-data record (its
\* first key, else its alternate), also after the parsed page was copied into
\* the row, and every parsed value is in its column.
OdSource(c) ==
    CASE c = "od_libelle_formation" -> <<"libelle_formation", "libelle_long">>
      [] c = "od_libelle_etablissement" -> <<"libelle_etablissement", "etablissement">>
      [] c = "od_diplome" -> <<"type_de_formation", "diplome">>
      [] c = "od_secteur" -> <<"secteur", "secteur">>
      [] c = "od_academie" -> <<"academie", "nom_academie">>
      [] c = "od_departement" -> <<"departement", "nom_departement">>
      [] c = "od_commune" -> <<"commune", "commune">>
      [] c = "od_code_postal" -> <<"code_postal", "code_postal">>
      [] c = "od_uai" -> <<"uai", "uai">>

PageCopied(resp) ==
    resp.kind = "http" /\ resp.status = 200 /\ resp.html /\ resp.page # "bad"

C8_MergePrecedence ==
    (driver = "structured" /\ last.kind = "processed")
    => /\ Row["source_url"] = last.url
       /\ Row["g_ta_cod"] = (IF last.url = "u1" THEN "4242" ELSE "")
       /\ \A c \in OdColumns :
            LET first == OdSource(c)[1]
                second == OdSource(c)[2]
            IN  Row[c] =
                    (IF first \in DOMAIN last.od /\ last.od[first] # ""
                     THEN last.od[first]
                     ELSE IF second \in DOMAIN last.od THEN last.od[second]
                     ELSE "")
       /\ PageCopied(last.resp) =>
            \A k \in ParsedKeys :
                Row[k] = (IF last.resp.page = "full" THEN k
                          ELSE IF k \in IntParsedKeys THEN NoneVal ELSE "")

\* A row holding both an open-data record and a parsed page.
C8_Witness ==
    /\ driver = "structured"
    /\ last.kind = "processed"
    /\ last.od = OdFull
    /\ last.resp.page = "full"
    /\ PageCopied(last.resp)
    /\ Row["od_commune"] = "commune"
    /\ Row["lv1"] = "lv1"

\* C9: when a run has ended, the file holds exactly one header row, and it is
\* its first line.
C9_OneHeader ==
    (pc = "idle" /\ lastExit = "done")
    => /\ disk # << >>
       /\ disk[1] = HeaderLine
       /\ Len(disk) - Len(DataRows(disk)) = 1

(***************************************************************************)
(* Properties of the collectors.                                           *)
(***************************************************************************)
Called == call.fn \in {"extract", "collect"}

\* The call of the state, on another document or with other patterns.
Recall(d, pats) ==
    IF call.fn = "extract"
    THEN extract_text_after_heading(d, pats[1], call.max_chars)
    ELSE collect_section_text(d, pats, call.max_chars)

\* The first heading-level element after element t (0: none).
NextHeading(d, t) ==
    LET hs == {j \in (t + 1)..Len(d) : d[j].tag \in HeadingTags}
    IN  IF hs = {} THEN 0 ELSE CHOOSE j \in hs : \A k \in hs : j <= k

\* C5: the text collected after the matched heading holds nothing of the
\* elements at or after the next heading-level element: it is the text
\* collected from the document cut off before that element.
C5_BoundaryRespect ==
    (Called /\ ret.tag # 0 /\ NextHeading(doc, ret.tag) # 0)
    => ret.units =
        Recall(SubSeq(doc, 1, NextHeading(doc, ret.tag) - 1), call.pats).units

\* C6: the returned string, joiners included, is longer than max_chars by at
\* most the length of the last unit appended.
C6_BudgetCap ==
    (Called /\ ret.units # << >>)
    => Len(ret.text) <= call.max_chars + Len(ret.units[Len(ret.units)])

\* C6 as amended: the units without the joiners are longer than max_chars by
\* at most the last unit, and the returned string adds at most one joiner
\* for each unit after the first.
C6_BudgetCapUnits ==
    (Called /\ ret.units # << >>)
    => /\ SumLen(ret.units) <= call.max_chars + Len(ret.units[Len(ret.units)])
       /\ Len(ret.text) <= SumLen(ret.units) + Len(ret.units) - 1

\* The budget was passed by the second unit, and the joiner takes the
\* returned string past max_chars plus that unit.
C6_Witness ==
    /\ call.fn = "collect"
    /\ Len(ret.units) = 2
    /\ SumLen(ret.units) > call.max_chars
    /\ Len(ret.text) > call.max_chars + Len(ret.units[2])

\* The heading-level elements with text that an alternative matches.
Matching(d, pats) ==
    {i \in 1..Len(d) :
        /\ d[i].tag \in HeadingTags
        /\ get_text(d, i, << >>) # << >>
        /\ \E p \in Range(pats) : search(p, get_text(d, i, <<" ">>))}

Reverse(s) == [i \in 1..Len(s) |-> s[Len(s) + 1 - i]]

\* C10: collect_section_text selects the first heading-level element, in
\* document order, whose text matches an alternative, whatever the order of
\* the alternatives, and returns the empty string when there is none.
C10_FirstMatch ==
    call.fn = "collect"
    => LET m == Matching(doc, call.pats)
       IN  /\ m # {} => ret.tag \in m /\ \A i \in m : ret.tag <= i
           /\ m = {} => ret.tag = 0 /\ ret.text = << >>
           /\ Recall(doc, Reverse(call.pats)).tag = ret.tag

\* Two headings that match different alternatives, the second alternative
\* matching the first heading.
C10_Witness ==
    /\ call.fn = "collect"
    /\ call.pats = <<<<"G">>, <<"f">>>>
    /\ Len(doc) >= 2
    /\ doc[1].tag = "h2" /\ doc[1].text = <<"F">>
    /\ doc[2].tag = "strong"
    /\ ret.tag = 1

(***************************************************************************)
(* Properties of the e-mail extractor.                                     *)
(***************************************************************************)
LowerStr(a) == [i \in 1..Len(a) |-> Lower(a[i])]

\* "a@ex.fr, A@EX.FR, b@ex.org"
C7_Example ==
    join(<<",", " ">>,
         <<<<"a", "@", "e", "x", ".", "f", "r">>,
           <<"A", "@", "E", "X", ".", "F", "R">>,
           <<"b", "@", "e", "x", ".", "o", "r", "g">>>>)

\* C7: the addresses returned are sorted and no two of them differ only in
\* letter case; for the text of C7_Example they are a@ex.fr and b@ex.org.
C7_EmailDeterminism ==
    call.fn = "emails"
    => /\ \A i, j \in 1..Len(emails) :
            LowerStr(emails[i]) = LowerStr(emails[j]) => i = j
       /\ \A i \in 1..(Len(emails) - 1) : StrLess(emails[i], emails[i + 1])
       /\ page_text = C7_Example =>
            emails = <<<<"a", "@", "e", "x", ".", "f", "r">>,
                       <<"b", "@", "e", "x", ".", "o", "r", "g">>>>

(***************************************************************************)
(* Properties of the loop: skipped URLs.                                   *)
(***************************************************************************)
\* C12: ProcessedSet is fixed from the start of the loop to the end of the
\* run, and the iteration of a URL that is in it makes no request (open data,
\* robots.txt or page), applies no delay and writes no row; the lines of the
\* URLs of ProcessedSet stay in the file as they were.
C12_SkipSemantics ==
    [][/\ (pc = "running" /\ pc' = "running") =>
            /\ done' = done
            /\ \A u \in done : u \in Range(disk) /\ u \in Range(disk')
            /\ \A i \in 1..Len(disk) : disk'[i] = disk[i]
       /\ (pc = "running" /\ pos <= Len(urls) /\ urls[pos] \in done
                /\ pos' # pos) =>
            /\ pos' = pos + 1
            /\ last'.url = urls[pos]
            /\ last'.requests = 0
            /\ last'.sleeps = 0
            /\ last'.writes = << >>
            /\ robots_cache' = robots_cache
            /\ disk' = disk
            /\ buf' = buf]_vars

\* A resumed run skipped a URL whose line is in the file, and has another
\* URL left to process.
C12_Witness ==
    /\ pc = "running"
    /\ mode = "a"
    /\ last.kind = "skipped"
    /\ last.url \in done
    /\ last.url \in Range(disk)
    /\ pos <= Len(urls)
    /\ urls[pos] \notin done

(***************************************************************************)
(* Properties of the loop: the delay between URLs.                         *)
(***************************************************************************)
\* C13: when a URL is processed after another URL of the same run was, and
\* its processing makes a network request, the delay was applied exactly
\* once since the earlier URL was processed, whatever that URL's outcome
\* (success, HTTP error, timeout, parse error, refused by robots.txt); and no
\* processed URL applies the delay more than once.
C13_PolitenessDelay ==
    [][(pc = "running" /\ pos <= Len(urls) /\ urls[pos] \notin done
            /\ pos' = pos + 1)
        => /\ (gap.open /\ last'.requests > 0) => gap.sleeps = 1
           /\ last'.sleeps <= 1]_vars

(***************************************************************************)
(* Properties of parse_int.                                                *)
(***************************************************************************)
\* The decimal digits of the argument, in order.
DigitsOf(s) == IF s = NoneStr THEN << >> ELSE SelectSeq(s, UnicodeDigit)

\* The whole number a sequence of digits writes.
RECURSIVE NumberOf(_)
NumberOf(d) ==
    IF d = << >> THEN 0
    ELSE DigitValue(d[1]) * 10 ^ (Len(d) - 1) + NumberOf(Tail(d))

\* "1 234", "1<NBSP>234" and "1234".
C11_Examples ==
    {<<"1", " ", "2", "3", "4">>, <<"1", "NBSP", "2", "3", "4">>,
     <<"1", "2", "3", "4">>}

====
